---- MODULE Spec2Model ----
(***************************************************************************)
(* Duration resolution and layered compositing of sceneweaver scene trees. *)
(*                                                                         *)
(* Times are counted in frame ticks: a duration of d seconds is d * Fps    *)
(* ticks and `frames / fps` seconds is `frames` ticks, so the divisions of *)
(* the source stay exact.                                                  *)
(***************************************************************************)
EXTENDS Integers, Sequences, FiniteSets, TLC

\* ------------------------------------------------------------- bounds
MaxDepth == 3
Fps == 2
MaxChildren == 3
MaxTopLevel == 2

MaxAbruptness == 2

MaxFrames == 3

HalfSteps == 2

\* ------------------------------------------------------------- values
None == << >>
Some(v) == << v >>
IsSome(o) == o # << >>
Val(o) == o[1]

\* The scenes of one tree: scene 1 is the scene resolve_duration or render is
\* called on from outside, the others are its descendants.
SceneIds == 1..4
MaxScenes == Cardinality(SceneIds)
Seconds(d) == d * Fps

\* The scene tree and its duration resolution.
VARIABLES kind, scenes, cfg, dur, call, log, returned

\* One CompositeScene.render call over the composite's children.
VARIABLES composite_mode, renders, effects, effects_before, pc, i, j,
          progress_effects, other_effects, original_mask_effects,
          final_layers, groups, result, clips, base_clip

resolveVars == << kind, scenes, cfg, dur, call, log, returned >>

renderVars == << composite_mode, renders, effects, effects_before, pc, i, j,
                 progress_effects, other_effects, original_mask_effects,
                 final_layers, groups, result, clips, base_clip >>

\* Generate runs over the top-level scenes, sharing the on-disk cache.
VARIABLES force, target_scene_id, cache_policy, behaviour, store,
          gpc, index, final_clip_paths, temp_dir, assembled, output,
          got, put_calls, rendered, processed

generateVars == << force, target_scene_id, cache_policy, behaviour, store,
                   gpc, index, final_clip_paths, temp_dir, assembled, output,
                   got, put_calls, rendered, processed >>

\* One VideoSpec.from_dict call.
VARIABLES global_scene_defaults, scenes_data, loaded, origin, lpc, block,
          load_result, pairs

loadVars == << global_scene_defaults, scenes_data, loaded, origin, lpc, block,
               load_result, pairs >>

\* One prepare of a composite over per-frame children and their renders.
VARIABLES refs, on_disk, assets, found, apc

assetVars == << refs, on_disk, assets, found, apc >>

\* One scene built from its raw configuration, rendered frame by frame and
\* post-processed by the template around it.
VARIABLES raw_scene, instance, epc, total_frames, frame_no, is_consumed,
          applied, sample

effectVars == << raw_scene, instance, epc, total_frames, frame_no, is_consumed,
                 applied, sample >>

vars == << resolveVars, renderVars, generateVars, loadVars, assetVars,
           effectVars >>

\* What an action of one part leaves alone.
outsideResolve == << renderVars, generateVars, loadVars, assetVars, effectVars >>

outsideRender == << resolveVars, generateVars, loadVars, assetVars, effectVars >>

outsideGenerate == << resolveVars, renderVars, loadVars, assetVars, effectVars >>

outsideLoad == << resolveVars, renderVars, generateVars, assetVars, effectVars >>

outsideAsset == << resolveVars, renderVars, generateVars, loadVars, effectVars >>

outsideEffect == << resolveVars, renderVars, generateVars, loadVars, assetVars >>

\* ------------------------------------------------------------- scene tree
\* The ordered children of scene p under the parent map par.
RECURSIVE ChildList(_, _, _)
ChildList(par, p, n) ==
    IF n > MaxScenes THEN << >>
    ELSE IF par[n] = p THEN << n >> \o ChildList(par, p, n + 1)
    ELSE ChildList(par, p, n + 1)

RECURSIVE Depth(_, _)
Depth(par, n) == IF n = 0 THEN 0 ELSE 1 + Depth(par, par[n])

RECURSIVE IsAncestorOrSelf(_, _, _)
IsAncestorOrSelf(par, a, n) ==
    IF n = 0 THEN FALSE
    ELSE IF a = n THEN TRUE
    ELSE IsAncestorOrSelf(par, a, par[n])

\* The ordered trees on the scene ids, numbered in pre-order (scene 1 is the
\* root; a scene's parent is the previous scene or one of its ancestors), at
\* most MaxDepth levels deep.
ParentMaps ==
    { par \in [SceneIds -> 0..MaxScenes] :
        /\ par[1] = 0
        /\ \A n \in SceneIds \ {1} :
             /\ par[n] >= 1 /\ par[n] < n
             /\ IsAncestorOrSelf(par, par[n], n - 1)
             /\ Depth(par, n) <= MaxDepth }

NoSource == [duration |-> None, frames |-> None, audio |-> None,
             withDuration |-> None, withFrames |-> None, transition |-> None]

\* What a scene may declare about its own length: nothing (a relative
\* scene), one source of a fixed length, or duration and frames together.
LeafConfigs ==
    { NoSource } \cup { [NoSource EXCEPT !.duration = Some(d)] : d \in {1, 2} }

CompositeConfigs ==
    { NoSource,
      [NoSource EXCEPT !.frames = Some(3)],
      [NoSource EXCEPT !.duration = Some(4), !.frames = Some(3)] }

TemplateConfigs ==
    { NoSource,
      [NoSource EXCEPT !.audio = Some(3)],
      [NoSource EXCEPT !.duration = Some(4), !.frames = Some(3)],
      [NoSource EXCEPT !.withDuration = Some(4)],
      [NoSource EXCEPT !.withFrames = Some(1)] }

\* A leaf of a template's internal spec may declare a transition of one
\* second to its next sibling.
WithTransition(cs) ==
    cs \cup { [c EXCEPT !.transition = Some(1)] : c \in { x \in cs : IsSome(x.duration) } }

\* The context durations a caller hands to resolve_duration (in ticks).
Contexts == { None, Some(Seconds(5)) }

\* ------------------------------------------------------------- resolver
\* One resolve_duration call in progress: the resolved durations, whether a
\* ValidationError is propagating, the assignments to _calculated_duration
\* made so far and the scenes whose resolve_duration has returned.
Assign(st, n, v) ==
    [st EXCEPT !.dur[n] = Some(v),
               !.log = Append(@, [scene |-> n, old |-> st.dur[n], new |-> Some(v)])]

Raise(st) == [st EXCEPT !.raised = TRUE]

Caught(st) == [st EXCEPT !.raised = FALSE]

BaseFixedRaises(n) == IsSome(cfg[n].duration) /\ IsSome(cfg[n].frames)

BaseFixedDuration(n) ==
    IF IsSome(cfg[n].duration) THEN Some(Seconds(Val(cfg[n].duration)))
    ELSE IF IsSome(cfg[n].frames) THEN cfg[n].frames
    ELSE IF IsSome(cfg[n].audio) THEN Some(Seconds(Val(cfg[n].audio)))
    ELSE None

TemplateUsesWith(n) == IsSome(cfg[n].withFrames) \/ IsSome(cfg[n].withDuration)

TemplateFixedDuration(n) ==
    IF IsSome(cfg[n].withFrames) THEN cfg[n].withFrames
    ELSE IF IsSome(cfg[n].withDuration) THEN Some(Seconds(Val(cfg[n].withDuration)))
    ELSE BaseFixedDuration(n)

FixedRaises(n) ==
    IF kind[n] = "template" THEN ~TemplateUsesWith(n) /\ BaseFixedRaises(n)
    ELSE BaseFixedRaises(n)

FixedDuration(n) ==
    IF kind[n] = "template" THEN TemplateFixedDuration(n) ELSE BaseFixedDuration(n)

BaseResolveDuration(n, ctx, st) ==
    IF IsSome(st.dur[n]) THEN st
    ELSE IF FixedRaises(n) THEN Raise(st)
    ELSE IF IsSome(FixedDuration(n)) THEN Assign(st, n, Val(FixedDuration(n)))
    ELSE IF IsSome(ctx) THEN Assign(st, n, Val(ctx))
    ELSE Raise(st)

IsSequence(t) ==
    ~(Len(scenes[t]) = 1 /\ kind[scenes[t][1]] = "composite")

RECURSIVE ResolveDuration(_, _, _)
RECURSIVE ResolveAll(_, _, _, _)
RECURSIVE SequenceLoop(_, _, _)
RECURSIVE LayeredLoop(_, _, _)
RECURSIVE SequenceLoopEveryTransition(_, _, _)
RECURSIVE LayeredLoopSum(_, _, _)

\* for child in list: child.resolve_duration(ctx, ...)
ResolveAll(list, k, ctx, st) ==
    IF k > Len(list) \/ st.raised THEN st
    ELSE ResolveAll(list, k + 1, ctx, ResolveDuration(list[k], ctx, st))

\* SequenceLoop without the `k < len(scenes) - 1` test: the last scene's
\* transition is subtracted too.
SequenceLoopEveryTransition(t, k, acc) ==
    IF k > Len(scenes[t]) THEN acc
    ELSE LET child == scenes[t][k]
             s1 == ResolveDuration(child, None, acc.st)
         IN IF s1.raised THEN [acc EXCEPT !.st = s1]
            ELSE IF s1.dur[child] = None THEN [acc EXCEPT !.st = Raise(s1)]
            ELSE SequenceLoopEveryTransition(t, k + 1,
                   [st |-> s1,
                    total_duration |-> acc.total_duration + Val(s1.dur[child]),
                    transition_total |->
                        IF IsSome(cfg[child].transition)
                        THEN acc.transition_total
                               + Seconds(Val(cfg[child].transition))
                        ELSE acc.transition_total])

SequenceLoop(t, k, acc) ==
    IF k > Len(scenes[t]) THEN acc
    ELSE LET child == scenes[t][k]
             s1 == ResolveDuration(child, None, acc.st)
         IN IF s1.raised THEN [acc EXCEPT !.st = s1]
            ELSE IF s1.dur[child] = None THEN [acc EXCEPT !.st = Raise(s1)]
            ELSE SequenceLoop(t, k + 1,
                   [st |-> s1,
                    total_duration |-> acc.total_duration + Val(s1.dur[child]),
                    transition_total |->
                        IF IsSome(cfg[child].transition) /\ k < Len(scenes[t])
                        THEN acc.transition_total
                               + Seconds(Val(cfg[child].transition))
                        ELSE acc.transition_total])

\* LayeredLoop adding the durations up instead of keeping the longest.
LayeredLoopSum(c, k, acc) ==
    IF k > Len(scenes[c]) THEN acc
    ELSE LET scene == scenes[c][k]
             s1 == ResolveDuration(scene, None, acc.st)
         IN IF s1.raised THEN [acc EXCEPT !.st = s1]
            ELSE IF s1.dur[scene] = None THEN [acc EXCEPT !.st = Raise(s1)]
            ELSE LayeredLoopSum(c, k + 1,
                   [st |-> s1,
                    max_duration |-> acc.max_duration + Val(s1.dur[scene])])

LayeredLoop(c, k, acc) ==
    IF k > Len(scenes[c]) THEN acc
    ELSE LET scene == scenes[c][k]
             s1 == ResolveDuration(scene, None, acc.st)
         IN IF s1.raised THEN [acc EXCEPT !.st = s1]
            ELSE IF s1.dur[scene] = None THEN [acc EXCEPT !.st = Raise(s1)]
            ELSE LayeredLoop(c, k + 1,
                   [st |-> s1,
                    max_duration |->
                        IF Val(s1.dur[scene]) > acc.max_duration
                        THEN Val(s1.dur[scene]) ELSE acc.max_duration])

\* TemplateFromChildren accumulating straight into _calculated_duration: a
\* failing child leaves the partial total behind.
TemplateFromChildrenEager(t, st) ==
    IF IsSequence(t)
    THEN LET a == SequenceLoop(t, 1,
                    [st |-> st, total_duration |-> 0, transition_total |-> 0])
             s2 == Assign(a.st, t, a.total_duration - a.transition_total)
         IN IF a.st.raised THEN s2
            ELSE ResolveAll(scenes[t], 1, s2.dur[t], s2)
    ELSE LET m == LayeredLoop(scenes[t][1], 1, [st |-> st, max_duration |-> 0])
             s2 == Assign(m.st, t, m.max_duration)
         IN IF m.st.raised THEN s2
            ELSE ResolveAll(scenes[t], 1, s2.dur[t], s2)

\* The bottom-up half of TemplateScene.resolve_duration.
TemplateFromChildren(t, st) ==
    IF IsSequence(t)
    THEN LET a == SequenceLoop(t, 1,
                    [st |-> st, total_duration |-> 0, transition_total |-> 0])
         IN IF a.st.raised THEN a.st
            ELSE LET s2 == Assign(a.st, t, a.total_duration - a.transition_total)
                 IN ResolveAll(scenes[t], 1, s2.dur[t], s2)
    ELSE LET m == LayeredLoop(scenes[t][1], 1, [st |-> st, max_duration |-> 0])
         IN IF m.st.raised THEN m.st
            ELSE LET s2 == Assign(m.st, t, m.max_duration)
                 IN ResolveAll(scenes[t], 1, s2.dur[t], s2)

\* TemplateResolveDuration starting afresh instead of returning early on a
\* template that is already resolved.
TemplateResolveDurationAfresh(t, ctx, st) ==
    LET s0 == [st EXCEPT !.dur[t] = None]
        s1 == BaseResolveDuration(t, ctx, s0)
    IN IF s1.raised THEN TemplateFromChildren(t, Caught(s1))
       ELSE LET s2 == ResolveAll(scenes[t], 1, s1.dur[t], s1)
            IN IF s2.raised THEN TemplateFromChildren(t, Caught(s2))
               ELSE s2

TemplateResolveDuration(t, ctx, st) ==
    IF IsSome(st.dur[t]) THEN st
    ELSE LET s1 == BaseResolveDuration(t, ctx, st)
         IN IF s1.raised THEN TemplateFromChildren(t, Caught(s1))
            ELSE LET s2 == ResolveAll(scenes[t], 1, s1.dur[t], s1)
                 IN IF s2.raised THEN TemplateFromChildren(t, Caught(s2))
                    ELSE s2

\* CompositeResolveDuration falling back to its children, as a template does,
\* when it cannot resolve top-down.
CompositeResolveDurationBottomUp(c, ctx, st) ==
    LET s1 == BaseResolveDuration(c, ctx, st)
    IN IF s1.raised
       THEN LET m == LayeredLoop(c, 1, [st |-> Caught(s1), max_duration |-> 0])
            IN IF m.st.raised THEN m.st
               ELSE LET s2 == Assign(m.st, c, m.max_duration)
                    IN ResolveAll(scenes[c], 1, s2.dur[c], s2)
       ELSE ResolveAll(scenes[c], 1, s1.dur[c], s1)

CompositeResolveDuration(c, ctx, st) ==
    LET s1 == BaseResolveDuration(c, ctx, st)
    IN IF s1.raised THEN s1
       ELSE ResolveAll(scenes[c], 1, s1.dur[c], s1)

ResolveDuration(n, ctx, st) ==
    LET r == CASE kind[n] = "template" -> TemplateResolveDuration(n, ctx, st)
               [] kind[n] = "composite" -> CompositeResolveDuration(n, ctx, st)
               [] OTHER -> BaseResolveDuration(n, ctx, st)
    IN IF r.raised THEN r ELSE [r EXCEPT !.returned = @ \cup {n}]

\* ------------------------------------------------------------- specification
KindsFor(ch) ==
    { k \in [SceneIds -> {"leaf", "composite", "template"}] :
        \A n \in SceneIds : (k[n] = "leaf") <=> (ch[n] = << >>) }

ConfigsFor(k, underTemplate) ==
    LET cs == CASE k = "template" -> TemplateConfigs
                [] k = "composite" -> CompositeConfigs
                [] OTHER -> LeafConfigs
    IN IF underTemplate /\ k = "leaf" THEN WithTransition(cs) ELSE cs

\* The configurations of scenes 1..n of a tree with parent map par and kinds k.
RECURSIVE TreeConfigs(_, _, _)
TreeConfigs(par, k, n) ==
    IF n = 0 THEN { << >> }
    ELSE { Append(c, x) :
             c \in TreeConfigs(par, k, n - 1),
             x \in ConfigsFor(k[n], par[n] # 0 /\ k[par[n]] = "template") }

NoCall == [scene |-> 0, context |-> None, raised |-> FALSE, again |-> FALSE]

ResolveInit ==
    /\ \E par \in ParentMaps :
         LET ch == [n \in SceneIds |-> ChildList(par, n, 1)]
         IN /\ scenes = ch
            /\ \E k \in KindsFor(ch) :
                 /\ kind = k
                 /\ cfg \in TreeConfigs(par, k, MaxScenes)
    /\ dur = [n \in SceneIds |-> None]
    /\ call = NoCall
    /\ log = << >>
    /\ returned = {}

\* No composite is being rendered.
RenderIdle ==
    /\ composite_mode = << >> /\ renders = << >>
    /\ effects = << >> /\ effects_before = << >>
    /\ pc = "idle" /\ i = 0 /\ j = 0
    /\ progress_effects = << >> /\ other_effects = << >>
    /\ original_mask_effects = << >>
    /\ final_layers = << >> /\ groups = << >>
    /\ result = "idle"
    /\ clips = << >> /\ base_clip = None

\* No generate run exists.
GenerateIdle ==
    /\ force = << >> /\ target_scene_id = << >>
    /\ cache_policy = << >> /\ behaviour = << >>
    /\ store = {}
    /\ gpc = << >> /\ index = << >>
    /\ final_clip_paths = << >> /\ temp_dir = << >>
    /\ assembled = << >> /\ output = << >>
    /\ got = << >> /\ put_calls = << >>
    /\ rendered = << >> /\ processed = << >>

\* No spec is being loaded.
LoadIdle ==
    /\ global_scene_defaults = << >> /\ scenes_data = << >>
    /\ loaded = << >> /\ origin = << >>
    /\ lpc = "idle" /\ block = 0
    /\ pairs = << >>
    /\ load_result = [kind |-> "idle"]

AssetIdle ==
    /\ refs = << >> /\ on_disk = {}
    /\ assets = << >> /\ found = << >>
    /\ apc = "idle"

EffectIdle ==
    /\ raw_scene = << >> /\ instance = << >>
    /\ epc = "idle"
    /\ total_frames = 0 /\ frame_no = 0
    /\ is_consumed = << >> /\ applied = << >>
    /\ sample = << >>

Init ==
    /\ ResolveInit /\ RenderIdle /\ GenerateIdle /\ LoadIdle
    /\ AssetIdle /\ EffectIdle

ResolveDurationCall(n, ctx) ==
    LET r == ResolveDuration(n, ctx,
               [dur |-> dur, raised |-> FALSE, log |-> << >>, returned |-> returned])
    IN /\ dur' = r.dur
       /\ call' = [scene |-> n, context |-> ctx, raised |-> r.raised,
                   again |-> n \in returned]
       /\ log' = r.log
       /\ returned' = r.returned
       /\ UNCHANGED << kind, scenes, cfg >>
       /\ UNCHANGED outsideResolve

Next == \E n \in SceneIds, ctx \in Contexts : ResolveDurationCall(n, ctx)

Spec == Init /\ [][Next]_vars

\* A template in which every length source may be present or absent, over
\* three plain internal scenes.
Present(v) == { None, Some(v) }

AnyTemplateConfigs ==
    { [duration |-> d, frames |-> f, audio |-> a, withDuration |-> wd,
       withFrames |-> wf, transition |-> None] :
        d \in Present(4), f \in Present(3), a \in Present(3),
        wd \in Present(2), wf \in Present(1) }

WithBlockInit ==
    /\ scenes = [n \in SceneIds |->
                   IF n = 1 THEN [k \in 1..(MaxScenes - 1) |-> k + 1] ELSE << >>]
    /\ kind = [n \in SceneIds |-> IF n = 1 THEN "template" ELSE "leaf"]
    /\ cfg \in { c \in [SceneIds -> AnyTemplateConfigs \cup LeafConfigs] :
                  /\ c[1] \in AnyTemplateConfigs
                  /\ \A n \in SceneIds \ {1} : c[n] \in LeafConfigs }
    /\ dur = [n \in SceneIds |-> None]
    /\ call = NoCall
    /\ log = << >>
    /\ returned = {}
    /\ RenderIdle /\ GenerateIdle /\ LoadIdle
    /\ AssetIdle /\ EffectIdle

WithBlockSpec == WithBlockInit /\ [][Next]_vars

\* ------------------------------------------------------------- compositing
\* The effect variants that matter to a composite: accel-decel reshapes the
\* progress of a per-frame renderer, a fade post-processes the clip.
has_progress_transform(e) == e = "accel-decel"

EffectLists == { << >>, << "fade-in", "accel-decel" >> }

RECURSIVE SelectEffects(_, _)
SelectEffects(es, progress) ==
    IF es = << >> THEN << >>
    ELSE IF has_progress_transform(Head(es)) = progress
         THEN << Head(es) >> \o SelectEffects(Tail(es), progress)
         ELSE SelectEffects(Tail(es), progress)

\* A child's render returns a clip, returns None, or raises.
RenderOutcomes == { "clip", "none", "raises" }

\* A frame is a handful of pixels. A clip is its transparency mask (None for
\* a clip with no mask, else the pixels that are opaque) and its picture (the
\* pixels that are bright, which is what to_mask() turns into a mask).
Pixels == {"p1", "p2", "p3"}

NoClip == [mask |-> None, picture |-> {}]

Clips == { [mask |-> None, picture |-> {"p1"}],
           [mask |-> Some({"p1", "p2"}), picture |-> {"p2", "p3"}] }

\* The pixels a mask lets through; a clip with no mask is opaque everywhere.
Opaque(mask) == IF IsSome(mask) THEN Val(mask) ELSE Pixels

to_mask(clip) == clip.picture

\* with_mask on the first stencil alone: the base's own mask is thrown away.
ReplaceMask(current_mask, stencil_mask) == Some(Pixels \ stencil_mask)

\* The exclude branch: a white mask for a base that has none, the black
\* punch composited over it, and the result as the base's new mask.
PunchMask(current_mask, stencil_mask) ==
    Some(Opaque(current_mask) \ stencil_mask)

NoTree ==
    /\ kind = [n \in SceneIds |-> "leaf"]
    /\ scenes = [n \in SceneIds |-> << >>]
    /\ cfg = [n \in SceneIds |-> NoSource]
    /\ dur = [n \in SceneIds |-> None]
    /\ call = NoCall
    /\ log = << >>
    /\ returned = {}

RenderInit ==
    /\ NoTree
    /\ GenerateIdle
    /\ LoadIdle
    /\ AssetIdle /\ EffectIdle
    /\ \E n \in 0..MaxChildren :
         /\ composite_mode \in [1..n -> {"layer", "mask", "exclude"}]
         /\ renders \in [1..n -> RenderOutcomes]
         /\ effects \in [1..n -> EffectLists]
         /\ clips \in { c \in [1..n -> Clips \cup {NoClip}] :
                          \A k \in 1..n : (c[k] = NoClip) <=> (renders[k] # "clip") }
    /\ base_clip = None
    /\ effects_before = effects
    /\ pc = "start" /\ i = 0 /\ j = 0
    /\ progress_effects = << >> /\ other_effects = << >>
    /\ original_mask_effects = << >>
    /\ final_layers = << >> /\ groups = << >>
    /\ result = "running"

RenderInputs == << composite_mode, renders, effects_before, clips >>

\* `if not self.scenes: return None`, else the loop starts at the first child.
RenderBegin ==
    /\ pc = "start"
    /\ IF Len(composite_mode) = 0
       THEN /\ pc' = "done" /\ result' = "none" /\ i' = i
       ELSE /\ pc' = "loop" /\ result' = result /\ i' = 1
    /\ UNCHANGED << RenderInputs, effects, j, progress_effects, other_effects,
                    original_mask_effects, final_layers, groups, base_clip >>
    /\ UNCHANGED outsideRender

\* The head of a group: the mode check and the split of the base's effects.
GroupStart ==
    /\ pc = "loop" /\ i <= Len(composite_mode)
    /\ IF composite_mode[i] # "layer"
       THEN /\ pc' = "done" /\ result' = "group_error"
            /\ UNCHANGED << progress_effects, other_effects, groups >>
       ELSE /\ pc' = "base_render" /\ result' = result
            /\ progress_effects' = SelectEffects(effects[i], TRUE)
            /\ other_effects' = SelectEffects(effects[i], FALSE)
            /\ groups' = Append(groups, [base |-> i, members |-> << >>])
    /\ UNCHANGED << RenderInputs, effects, i, j, original_mask_effects,
                    final_layers, base_clip >>
    /\ UNCHANGED outsideRender

\* base_scene.render(...): no clip skips to the next child.
BaseRender ==
    /\ pc = "base_render"
    /\ CASE renders[i] = "raises" ->
              /\ pc' = "done" /\ result' = "render_error"
              /\ UNCHANGED << i, j, base_clip >>
         [] renders[i] = "none" ->
              /\ pc' = "loop" /\ result' = result
              /\ i' = i + 1 /\ j' = j
              /\ base_clip' = None
         [] OTHER ->
              /\ pc' = "mask_loop" /\ result' = result
              /\ i' = i /\ j' = i + 1
              /\ base_clip' = Some(clips[i])
    /\ UNCHANGED << RenderInputs, effects, progress_effects, other_effects,
                    original_mask_effects, final_layers, groups >>
    /\ UNCHANGED outsideRender

\* The next member of the group: the base's progress effects are injected
\* into its stored effect list before it is rendered.
MaskInject ==
    /\ pc = "mask_loop"
    /\ j <= Len(composite_mode) /\ composite_mode[j] # "layer"
    /\ original_mask_effects' = effects[j]
    /\ effects' = [effects EXCEPT ![j] = effects[j] \o progress_effects]
    /\ groups' = [groups EXCEPT ![Len(groups)].members = Append(@, j)]
    /\ pc' = "mask_render"
    /\ UNCHANGED << RenderInputs, i, j, progress_effects, other_effects,
                    final_layers, result, base_clip >>
    /\ UNCHANGED outsideRender

\* mask_scene.render(...), then the stored effect list is put back.
MaskRender ==
    /\ pc = "mask_render"
    /\ IF renders[j] = "raises"
       THEN /\ pc' = "done" /\ result' = "render_error"
            /\ UNCHANGED << effects, j, base_clip >>
       ELSE /\ effects' = [effects EXCEPT ![j] = original_mask_effects]
            /\ base_clip' =
                 IF renders[j] = "clip" /\ composite_mode[j] = "exclude"
                 THEN Some([Val(base_clip) EXCEPT
                              !.mask = PunchMask(@, to_mask(clips[j]))])
                 ELSE base_clip
            /\ j' = j + 1
            /\ pc' = "mask_loop" /\ result' = result
    /\ UNCHANGED << RenderInputs, i, progress_effects, other_effects,
                    original_mask_effects, final_layers, groups >>
    /\ UNCHANGED outsideRender

\* The group is complete: its clip joins final_layers and the next group
\* starts where this one ended.
GroupEnd ==
    /\ pc = "mask_loop"
    /\ ~(j <= Len(composite_mode) /\ composite_mode[j] # "layer")
    /\ final_layers' = Append(final_layers, i)
    /\ i' = j
    /\ pc' = "loop"
    /\ UNCHANGED << RenderInputs, effects, j, progress_effects, other_effects,
                    original_mask_effects, groups, result, base_clip >>
    /\ UNCHANGED outsideRender

\* The loop is over: no layer gives None, else the composited clip.
RenderEnd ==
    /\ pc = "loop" /\ i > Len(composite_mode)
    /\ pc' = "done"
    /\ result' = IF final_layers = << >> THEN "none" ELSE "clip"
    /\ UNCHANGED << RenderInputs, effects, i, j, progress_effects, other_effects,
                    original_mask_effects, final_layers, groups, base_clip >>
    /\ UNCHANGED outsideRender

RenderNext ==
    \/ RenderBegin
    \/ GroupStart
    \/ BaseRender
    \/ MaskInject
    \/ MaskRender
    \/ GroupEnd
    \/ RenderEnd

RenderSpec == RenderInit /\ [][RenderNext]_vars

\* ------------------------------------------------------------- generate
\* Two command-line runs over the same spec file; each has its own
\* VideoGenerator, its own temporary directory and its own --force flag.
Runs == {1, 2}

\* The spec's top-level scenes; scene k has id k.
TopLevel == 1..MaxTopLevel

\* What happens when a scene is processed: it renders to a clip, renders to
\* None, or one of prepare, render, write_videofile and cache.put raises.
Behaviours == { "clip", "none", "prepare_raises", "render_raises",
                "encode_raises", "put_raises" }

\* No target, the first scene, or an id no scene has.
Targets == { 0, 1, MaxTopLevel + 1 }

RECURSIVE IndicesOf(_, _)
IndicesOf(target, k) ==
    IF k > MaxTopLevel THEN << >>
    ELSE (IF k = target THEN << k >> ELSE << >>) \o IndicesOf(target, k + 1)

\* scenes_to_process of run r, as positions in the spec.
scenes_to_process(r) ==
    IF target_scene_id[r] = 0 THEN [k \in TopLevel |-> k]
    ELSE IndicesOf(target_scene_id[r], 1)

Scene(r) == scenes_to_process(r)[index[r]]

\* use_cache = scene.cache is not None and not self.force
UseCacheUnlessForced(r, k) == ~force[r]

use_cache(r, k) == cache_policy[k] /\ ~force[r]

\* A cache in which every lookup misses.
CacheMiss(k) == None

\* cache.get: the stored clip of a fingerprint, if there is one.
CacheGet(k) ==
    IF k \in store THEN Some([scene |-> k, from |-> "cache"]) ELSE None

\* cache.put: the clip is stored under its fingerprint.
CachePut(k) == store \cup {k}

NoTempDir == [exists |-> FALSE, files |-> {}]

\* Leaving the TemporaryDirectory block without removing anything.
KeepTempDir(td) == td

\* Leaving the TemporaryDirectory block removes the directory and its clips.
ExitTempDir(td) == NoTempDir

PrependClip(paths, p) == << p >> \o paths

\* final_clip_paths.append(clip_path)
AppendClip(paths, p) == Append(paths, p)

GenerateInit ==
    /\ NoTree
    /\ RenderIdle
    /\ LoadIdle
    /\ AssetIdle /\ EffectIdle
    /\ force \in [Runs -> BOOLEAN]
    /\ target_scene_id \in [Runs -> Targets]
    /\ cache_policy \in [TopLevel -> BOOLEAN]
    /\ behaviour \in [TopLevel -> Behaviours]
    /\ store = {}
    /\ gpc = [r \in Runs |-> "start"]
    /\ index = [r \in Runs |-> 0]
    /\ final_clip_paths = [r \in Runs |-> << >>]
    /\ temp_dir = [r \in Runs |-> NoTempDir]
    /\ assembled = [r \in Runs |-> None]
    /\ output = [r \in Runs |-> FALSE]
    /\ got = [r \in Runs |-> {}]
    /\ put_calls = [r \in Runs |-> {}]
    /\ rendered = [r \in Runs |-> {}]
    /\ processed = [r \in Runs |-> {}]

GenerateInputs == << force, target_scene_id, cache_policy, behaviour >>

\* An exception leaves generate: the TemporaryDirectory block is left on the
\* way out and nothing after the loop runs.
Abort(r) ==
    /\ gpc' = [gpc EXCEPT ![r] = "failed"]
    /\ temp_dir' = [temp_dir EXCEPT ![r] = ExitTempDir(@)]

\* _process_scene returned clip_path for the scene at index[r]: it joins
\* final_clip_paths and the loop moves on.
Returned(r, clip_path) ==
    /\ final_clip_paths' =
         IF IsSome(clip_path)
         THEN [final_clip_paths EXCEPT ![r] = AppendClip(@, Val(clip_path))]
         ELSE final_clip_paths
    /\ processed' = [processed EXCEPT ![r] = @ \cup {Scene(r)}]
    /\ IF index[r] < Len(scenes_to_process(r))
       THEN /\ index' = [index EXCEPT ![r] = @ + 1]
            /\ gpc' = [gpc EXCEPT ![r] = "process"]
       ELSE /\ index' = index
            /\ gpc' = [gpc EXCEPT ![r] = "assemble"]

\* generate up to the loop: the target filter and the temporary directory.
GenerateBegin(r) ==
    /\ gpc[r] = "start"
    /\ IF target_scene_id[r] # 0 /\ scenes_to_process(r) = << >>
       THEN /\ gpc' = [gpc EXCEPT ![r] = "failed"]
            /\ UNCHANGED << index, temp_dir >>
       ELSE /\ temp_dir' = [temp_dir EXCEPT ![r] = [exists |-> TRUE, files |-> {}]]
            /\ IF scenes_to_process(r) = << >>
               THEN /\ gpc' = [gpc EXCEPT ![r] = "assemble"]
                    /\ index' = index
               ELSE /\ gpc' = [gpc EXCEPT ![r] = "process"]
                    /\ index' = [index EXCEPT ![r] = 1]
    /\ UNCHANGED << GenerateInputs, store, final_clip_paths, assembled, output,
                    got, put_calls, rendered, processed >>
    /\ UNCHANGED outsideGenerate

\* _process_scene up to the render call: prepare, then the cache lookup.
ProcessScene(r) ==
    /\ gpc[r] = "process"
    /\ LET k == Scene(r)
       IN IF behaviour[k] = "prepare_raises"
          THEN /\ Abort(r)
               /\ UNCHANGED << index, final_clip_paths, got, processed >>
          ELSE IF use_cache(r, k)
          THEN /\ got' = [got EXCEPT ![r] = @ \cup {k}]
               /\ IF IsSome(CacheGet(k))
                  THEN /\ Returned(r, CacheGet(k))
                       /\ temp_dir' = temp_dir
                  ELSE /\ gpc' = [gpc EXCEPT ![r] = "render"]
                       /\ UNCHANGED << index, final_clip_paths, processed, temp_dir >>
          ELSE /\ gpc' = [gpc EXCEPT ![r] = "render"]
               /\ UNCHANGED << index, final_clip_paths, got, processed, temp_dir >>
    /\ UNCHANGED << GenerateInputs, store, assembled, output, put_calls, rendered >>
    /\ UNCHANGED outsideGenerate

\* scene.render, then the clip is written into the temporary directory.
RenderScene(r) ==
    /\ gpc[r] = "render"
    /\ LET k == Scene(r)
       IN /\ rendered' = [rendered EXCEPT ![r] = @ \cup {k}]
          /\ CASE behaviour[k] = "render_raises" ->
                    /\ Abort(r)
                    /\ UNCHANGED << index, final_clip_paths, processed >>
               [] behaviour[k] = "none" ->
                    /\ Returned(r, None)
                    /\ temp_dir' = temp_dir
               [] behaviour[k] = "encode_raises" ->
                    /\ Abort(r)
                    /\ UNCHANGED << index, final_clip_paths, processed >>
               [] OTHER ->
                    /\ temp_dir' = [temp_dir EXCEPT ![r].files = @ \cup {k}]
                    /\ IF use_cache(r, k)
                       THEN /\ gpc' = [gpc EXCEPT ![r] = "put"]
                            /\ UNCHANGED << index, final_clip_paths, processed >>
                       ELSE Returned(r, Some([scene |-> k, from |-> "temp"]))
    /\ UNCHANGED << GenerateInputs, store, assembled, output, got, put_calls >>
    /\ UNCHANGED outsideGenerate

\* cache.put stores the clip and returns the stored handle.
PutScene(r) ==
    /\ gpc[r] = "put"
    /\ LET k == Scene(r)
       IN /\ put_calls' = [put_calls EXCEPT ![r] = @ \cup {k}]
          /\ IF behaviour[k] = "put_raises"
             THEN /\ Abort(r)
                  /\ UNCHANGED << index, final_clip_paths, processed, store >>
             ELSE /\ store' = CachePut(k)
                  /\ Returned(r, Some([scene |-> k, from |-> "cache"]))
                  /\ temp_dir' = temp_dir
    /\ UNCHANGED << GenerateInputs, assembled, output, got, rendered >>
    /\ UNCHANGED outsideGenerate

\* _assemble_final_video, then the TemporaryDirectory block ends.
Assemble(r) ==
    /\ gpc[r] = "assemble"
    /\ assembled' = [assembled EXCEPT ![r] = Some(final_clip_paths[r])]
    /\ output' = [output EXCEPT ![r] = final_clip_paths[r] # << >>]
    /\ temp_dir' = [temp_dir EXCEPT ![r] = ExitTempDir(@)]
    /\ gpc' = [gpc EXCEPT ![r] = "done"]
    /\ UNCHANGED << GenerateInputs, store, index, final_clip_paths,
                    got, put_calls, rendered, processed >>
    /\ UNCHANGED outsideGenerate

GenerateNext ==
    \E r \in Runs :
       \/ GenerateBegin(r)
       \/ ProcessScene(r)
       \/ RenderScene(r)
       \/ PutScene(r)
       \/ Assemble(r)

GenerateSpec == GenerateInit /\ [][GenerateNext]_vars

\* ------------------------------------------------------------- spec loading
\* A scene dictionary is a function from some keys to their values.
EmptyDict == << >>

\* {**a, **b}: b's value wherever b has the key.
MergeKeepFirst(a, b) ==
    [key \in DOMAIN a \cup DOMAIN b |->
        IF key \in DOMAIN a THEN a[key] ELSE b[key]]

Merge(a, b) ==
    [key \in DOMAIN a \cup DOMAIN b |->
        IF key \in DOMAIN b THEN b[key] ELSE a[key]]

\* The dictionary without the given keys.
Without(d, keys) == [key \in DOMAIN d \ keys |-> d[key]]

\* settings.scene_defaults
GlobalDefaults == { EmptyDict, [duration |-> "1"], [id |-> "b"] }

\* What the user writes in a scene block next to its type.
UserKeys == { EmptyDict, [id |-> "a"], [id |-> "b", duration |-> "2"] }

\* The scenes a template's template.yaml renders to.
TemplateScenes == { [type |-> "color", id |-> "a", duration |-> "1"],
                    [type |-> "color", duration |-> "3"] }

RECURSIVE SeqsUpTo(_, _)
SeqsUpTo(S, n) ==
    IF n = 0 THEN { << >> }
    ELSE LET shorter == SeqsUpTo(S, n - 1)
         IN shorter \cup { Append(q, x) : q \in shorter, x \in S }

\* A user scene block and, for a template block, what the template renders to.
UserBlocks ==
    { [user |-> Merge([type |-> "color"], u), scenes_from_template |-> << >>]
        : u \in UserKeys }
    \cup
    { [user |-> Merge([type |-> "template", name |-> "t"], u),
       scenes_from_template |-> t]
        : u \in UserKeys, t \in SeqsUpTo(TemplateScenes, 2) }

LoadInit ==
    /\ NoTree
    /\ RenderIdle
    /\ GenerateIdle
    /\ AssetIdle /\ EffectIdle
    /\ global_scene_defaults \in GlobalDefaults
    /\ scenes_data \in SeqsUpTo(UserBlocks, MaxTopLevel)
    /\ loaded = << >> /\ origin = << >>
    /\ lpc = "blocks" /\ block = 1
    /\ pairs = << >>
    /\ load_result = [kind |-> "running"]

LoadInputs == << global_scene_defaults, scenes_data >>

\* The scenes one user block contributes, each with where it came from.
RECURSIVE Subsequent(_, _, _)
Subsequent(b, list, n) ==
    IF n > Len(list) THEN << >>
    ELSE << [data |-> Merge(global_scene_defaults, list[n]),
             block |-> b, position |-> n] >>
         \o Subsequent(b, list, n + 1)

Expand(b) ==
    LET user_scene_block == scenes_data[b].user
        scenes_from_template == scenes_data[b].scenes_from_template
        user_direct_overrides == Without(user_scene_block, {"type", "name", "with"})
    IN IF user_scene_block.type # "template"
       THEN << [data |-> Merge(global_scene_defaults, user_scene_block),
                block |-> b, position |-> 0] >>
       ELSE IF scenes_from_template = << >> THEN << >>
       ELSE << [data |-> Merge(Merge(global_scene_defaults, scenes_from_template[1]),
                               user_direct_overrides),
                block |-> b, position |-> 1] >>
            \o Subsequent(b, scenes_from_template, 2)

\* One pass of the loop over scenes_data.
LoadBlock ==
    /\ lpc = "blocks" /\ block <= Len(scenes_data)
    /\ LET new == Expand(block)
       IN /\ loaded' = loaded \o [n \in 1..Len(new) |-> new[n].data]
          /\ origin' = origin \o [n \in 1..Len(new) |->
                                     [block |-> new[n].block,
                                      position |-> new[n].position]]
    /\ block' = block + 1
    /\ UNCHANGED << LoadInputs, lpc, load_result, pairs >>
    /\ UNCHANGED outsideLoad

HasId(scene) == "id" \in DOMAIN scene

\* The loop of validate without the duplicate check.
RECURSIVE ValidateIdsOnly(_, _, _)
ValidateIdsOnly(list, n, scene_ids) ==
    IF n > Len(list) THEN [kind |-> "spec"]
    ELSE IF ~HasId(list[n])
         THEN [kind |-> "error", message |-> "missing id", at |-> n]
    ELSE ValidateIdsOnly(list, n + 1, scene_ids \cup {list[n].id})

\* The loop of validate: each scene's own validate, then the duplicate check.
RECURSIVE ValidateScenes(_, _, _)
ValidateScenes(list, n, scene_ids) ==
    IF n > Len(list) THEN [kind |-> "spec"]
    ELSE IF ~HasId(list[n])
         THEN [kind |-> "error", message |-> "missing id", at |-> n]
    ELSE IF list[n].id \in scene_ids
         THEN [kind |-> "error", message |-> "duplicate", at |-> n]
    ELSE ValidateScenes(list, n + 1, scene_ids \cup {list[n].id})

\* instance.validate() and the return.
LoadValidate ==
    /\ lpc = "blocks" /\ block > Len(scenes_data)
    /\ load_result' =
         IF loaded = << >>
         THEN [kind |-> "error", message |-> "no scenes", at |-> 0]
         ELSE ValidateScenes(loaded, 1, {})
    /\ lpc' = "done"
    /\ UNCHANGED << LoadInputs, loaded, origin, block, pairs >>
    /\ UNCHANGED outsideLoad

\* zip(scenes_to_process, raw_scenes_to_process): positions are paired up to
\* the end of the shorter list.
Zip(a, b) ==
    LET shorter == IF Len(a) <= Len(b) THEN Len(a) ELSE Len(b)
    IN [n \in 1..shorter |-> [scene |-> n, raw |-> n]]

\* generate without a target: scenes_to_process is the loaded spec's scenes
\* and raw_scenes_to_process the spec dictionary's `scenes` list.
GeneratePairs ==
    /\ lpc = "done" /\ load_result.kind = "spec"
    /\ pairs' = Zip(loaded, scenes_data)
    /\ lpc' = "paired"
    /\ UNCHANGED << LoadInputs, loaded, origin, block, load_result >>
    /\ UNCHANGED outsideLoad

LoadNext ==
    \/ LoadBlock
    \/ LoadValidate
    \/ GeneratePairs

LoadSpec == LoadInit /\ [][LoadNext]_vars

\* ------------------------------------------------------------- assets
\* A file reference as a scene writes it, relative to the base directory:
\* a directory and a file name. The resolved path keeps both.
Dirs == { "d1", "d2" }

Names == { "x.svg", "y.svg" }

Refs == [dir : Dirs, name : Names]

\* (base_dir / reference).resolve()
Resolve(ref) == ref

\* Path(...).name
FileName(path) == path.name

\* list(dict.fromkeys(resolved_assets)): the first occurrence of each path.
RECURSIVE Deduplicate(_, _)
Deduplicate(list, n) ==
    IF n > Len(list) THEN << >>
    ELSE LET rest == Deduplicate(list, n + 1)
         IN IF \E m \in 1..(n - 1) : list[m] = list[n]
            THEN rest
            ELSE << list[n] >> \o rest

\* The first asset whose file name is the reference's file name.
find_asset(file_name, list) ==
    LET hits == { n \in 1..Len(list) : FileName(list[n]) = FileName(file_name) }
    IN IF hits = {} THEN None
       ELSE Some(list[CHOOSE n \in hits : \A m \in hits : n <= m])

AssetInit ==
    /\ NoTree
    /\ RenderIdle /\ GenerateIdle /\ LoadIdle /\ EffectIdle
    /\ refs \in SeqsUpTo(Refs, MaxChildren)
    /\ on_disk \in { Refs, Refs \ { [dir |-> "d2", name |-> "y.svg"] } }
    /\ assets = << >> /\ found = << >>
    /\ apc = "prepare"

\* The composite's prepare: each child's prepare in turn, which fails on a
\* missing file, then the duplicates are removed.
Prepare ==
    /\ apc = "prepare"
    /\ IF \E n \in 1..Len(refs) : Resolve(refs[n]) \notin on_disk
       THEN /\ apc' = "failed"
            /\ assets' = assets
       ELSE /\ apc' = "render"
            /\ assets' = Deduplicate([n \in 1..Len(refs) |-> Resolve(refs[n])], 1)
    /\ UNCHANGED << refs, on_disk, found >>
    /\ UNCHANGED outsideAsset

\* The composite renders its next child with the merged list; the child looks
\* its template up in it.
RenderChild ==
    /\ apc = "render" /\ Len(found) < Len(refs)
    /\ LET user_template_path == find_asset(refs[Len(found) + 1], assets)
       IN IF user_template_path = None
          THEN /\ apc' = "failed"
               /\ found' = found
          ELSE /\ found' = Append(found, user_template_path)
               /\ apc' = IF Len(found) + 1 = Len(refs) THEN "done" ELSE apc
    /\ UNCHANGED << refs, on_disk, assets >>
    /\ UNCHANGED outsideAsset

AssetNext ==
    \/ Prepare
    \/ RenderChild

AssetSpec == AssetInit /\ [][AssetNext]_vars

\* ------------------------------------------------------------- effects
\* Progress values are exact fractions << numerator, denominator >> in lowest
\* terms, with a positive denominator.
RECURSIVE GCD(_, _)
GCD(a, b) == IF b = 0 THEN a ELSE GCD(b, a % b)

Frac(n, d) ==
    LET g == GCD(IF n < 0 THEN -n ELSE n, d)
    IN << n \div g, d \div g >>

Add(a, b) == Frac(a[1] * b[2] + b[1] * a[2], a[2] * b[2])

Sub(a, b) == Frac(a[1] * b[2] - b[1] * a[2], a[2] * b[2])

Mul(a, b) == Frac(a[1] * b[1], a[2] * b[2])

Less(a, b) == a[1] * b[2] < b[1] * a[2]

RECURSIVE Pow(_, _)
Pow(a, p) == IF p = 0 THEN Frac(1, 1) ELSE Mul(a, Pow(a, p - 1))

\* min_speed taken as it is written.
Unclamped(min_speed) == min_speed

\* min(1.0, max(0.0, min_speed))
Clamp(min_speed) ==
    IF Less(min_speed, Frac(0, 1)) THEN Frac(0, 1)
    ELSE IF Less(Frac(1, 1), min_speed) THEN Frac(1, 1)
    ELSE min_speed

\* AccelDecelEffect.transform_progress for a whole-number abruptness.
AccelDecelProgress(e, t) ==
    LET p == IF e.abruptness < 0 THEN -e.abruptness ELSE e.abruptness
        one == Frac(1, 1)
        half == Frac(1, 2)
        twice == Mul(Frac(2, 1), t)
        eased_progress ==
            IF e.abruptness > 0
            THEN IF Less(t, half)
                 THEN Mul(Pow(twice, p), half)
                 ELSE Sub(one, Mul(Pow(Sub(Frac(2, 1), twice), p), half))
            ELSE IF Less(t, half)
                 THEN Mul(Sub(one, Pow(Sub(one, twice), p)), half)
                 ELSE Add(Mul(Pow(Sub(twice, one), p), half), half)
    IN IF e.abruptness = 0 THEN t
       ELSE Add(Mul(eased_progress, Sub(one, e.min_speed)), Mul(t, e.min_speed))

\* transform_progress: the base class returns its input.
transform_progress(e, t) ==
    IF has_progress_transform(e.type) THEN AccelDecelProgress(e, t) ELSE t

\* Raw effect dictionaries: accel-decel with or without a duration, a slide
\* with or without a duration and with a good or a bad side, and a type no
\* effect has.
RawAccelDecel ==
    { [type |-> "accel-decel", duration |-> Some(1), abruptness |-> a,
       min_speed |-> Frac(m, 2), side |-> "left"] :
         a \in (-MaxAbruptness)..MaxAbruptness, m \in (-1)..3 }

RawSlide ==
    { [type |-> "slide-in", duration |-> d, abruptness |-> 0,
       min_speed |-> Frac(0, 1), side |-> sd] :
         d \in Present(1), sd \in {"left", "middle"} }

SlideLeft ==
    [type |-> "slide-in", duration |-> Some(1), abruptness |-> 0,
     min_speed |-> Frac(0, 1), side |-> "left"]

RawEffects ==
    RawAccelDecel \cup RawSlide
    \cup { [type |-> "accel-decel", duration |-> None, abruptness |-> 1,
            min_speed |-> Frac(0, 1), side |-> "left"],
           [type |-> "wobble", duration |-> Some(1), abruptness |-> 0,
            min_speed |-> Frac(0, 1), side |-> "left"] }

RawEffectLists ==
    SeqsUpTo(RawEffects, 1) \cup { << SlideLeft, e >> : e \in RawAccelDecel }

\* The `cache` key of a raw scene: absent, false, true, null or a mapping.
CacheValues == { "absent", "false", "true", "null", "mapping" }

SceneTypes == { "svg", "image", "video-images", "composite", "template",
               "hologram" }

\* A raw scene: its type, whether the key its variant requires is there
\* (template, image, fps and file, name), its cache key and its effects.
RawScenes ==
    [type : SceneTypes, required : BOOLEAN, cache : CacheValues,
     effects : RawEffectLists]

Error(name) == [kind |-> "error", error |-> name]

\* AccelDecelEffect.from_dict and SlideEffect.from_dict behind the dispatch
\* of BaseEffect.from_dict.
EffectFromDict(e) ==
    IF e.type = "accel-decel"
    THEN IF e.duration = None THEN Error("ValueError")
         ELSE [kind |-> "effect",
               effect |-> [e EXCEPT !.min_speed = Clamp(e.min_speed)]]
    ELSE IF e.type \in {"slide-in", "slide-out"}
    THEN IF e.duration = None THEN Error("KeyError")
         ELSE IF e.side \notin {"left", "right", "top", "bottom"}
         THEN Error("ValueError")
         ELSE [kind |-> "effect", effect |-> e]
    ELSE Error("ValueError")

\* [from_dict(d) for d in data]: the first failure leaves the comprehension.
RECURSIVE EffectsFromList(_, _)
EffectsFromList(list, n) ==
    IF n > Len(list) THEN [kind |-> "effects", effects |-> << >>]
    ELSE LET first == EffectFromDict(list[n])
             rest == EffectsFromList(list, n + 1)
         IN IF first.kind = "error" THEN first
            ELSE IF rest.kind = "error" THEN rest
            ELSE [kind |-> "effects",
                  effects |-> << first.effect >> \o rest.effects]

\* cache=data.get("cache")
CacheAsWritten(value) ==
    IF value \in {"absent", "null"} THEN None ELSE Some(value)

\* The cache_config chain of ImageScene and VideoImagesScene.
CacheConfig(value) ==
    IF value \in {"absent", "false"} THEN None
    ELSE IF value \in {"true", "null"} THEN Some("empty")
    ELSE Some(value)

Built(cache, list) == [kind |-> "scene", cache |-> cache, effects |-> list]

SvgFromDict(d) ==
    LET built == EffectsFromList(d.effects, 1)
    IN IF ~d.required THEN Error("ValidationError")
       ELSE IF built.kind = "error" THEN built
       ELSE Built(CacheAsWritten(d.cache), built.effects)

ImageFromDict(d) ==
    IF ~d.required THEN Error("ValidationError")
    ELSE Built(CacheConfig(d.cache), << >>)

VideoImagesFromDict(d) ==
    IF ~d.required THEN Error("KeyError")
    ELSE Built(CacheConfig(d.cache), << >>)

CompositeFromDict(d) ==
    LET built == EffectsFromList(d.effects, 1)
    IN IF built.kind = "error" THEN built
       ELSE Built(CacheAsWritten(d.cache), built.effects)

TemplateFromDict(d) ==
    LET built == EffectsFromList(d.effects, 1)
    IN IF ~d.required THEN Error("ValidationError")
       ELSE IF built.kind = "error" THEN built
       ELSE Built(CacheAsWritten(d.cache), built.effects)

\* BaseScene.from_dict: the variant's from_dict, or the unknown-type error.
from_dict(d) ==
    CASE d.type = "svg" -> SvgFromDict(d)
      [] d.type = "image" -> ImageFromDict(d)
      [] d.type = "video-images" -> VideoImagesFromDict(d)
      [] d.type = "composite" -> CompositeFromDict(d)
      [] d.type = "template" -> TemplateFromDict(d)
      [] OTHER -> Error("ValidationError")

EffectInit ==
    /\ NoTree
    /\ RenderIdle /\ GenerateIdle /\ LoadIdle /\ AssetIdle
    /\ raw_scene \in RawScenes
    /\ instance = << >>
    /\ epc = "construct"
    /\ total_frames = 0 /\ frame_no = 0
    /\ is_consumed = << >> /\ applied = << >>
    /\ sample = << >>

FromDict ==
    /\ epc = "construct"
    /\ instance' = from_dict(raw_scene)
    /\ epc' = IF instance'.kind = "scene" THEN "built" ELSE "failed"
    /\ is_consumed' = IF instance'.kind = "scene"
                      THEN [k \in 1..Len(instance'.effects) |-> FALSE]
                      ELSE << >>
    /\ UNCHANGED << raw_scene, total_frames, frame_no, applied, sample >>
    /\ UNCHANGED outsideEffect

\* One call of an effect's transform_progress on a progress value.
Transform(k, t) ==
    /\ epc = "built"
    /\ k \in 1..Len(instance.effects)
    /\ sample' = [effect |-> k, input |-> t,
                  output |-> transform_progress(instance.effects[k], t)]
    /\ epc' = "sampled"
    /\ UNCHANGED << raw_scene, instance, total_frames, frame_no, is_consumed,
                    applied >>
    /\ UNCHANGED outsideEffect

\* SvgScene.render up to the frame loop: total_frames = int(duration * fps).
RenderStart ==
    /\ epc = "built" /\ raw_scene.type = "svg"
    /\ total_frames' \in 0..MaxFrames
    /\ frame_no' = 0
    /\ epc' = "frames"
    /\ UNCHANGED << raw_scene, instance, is_consumed, applied, sample >>
    /\ UNCHANGED outsideEffect

\* for effect in self.effects: the progress is handed from effect to effect
\* and an effect that changed it is marked consumed.
RECURSIVE ApplyEffects(_, _, _, _)
ApplyEffects(list, k, modified_progress, consumed) ==
    IF k > Len(list)
    THEN [progress |-> modified_progress, is_consumed |-> consumed]
    ELSE LET new_progress == transform_progress(list[k], modified_progress)
         IN ApplyEffects(list, k + 1, new_progress,
                         IF new_progress # modified_progress
                         THEN [consumed EXCEPT ![k] = TRUE]
                         ELSE consumed)

\* One pass of the frame loop.
RenderFrame ==
    /\ epc = "frames" /\ frame_no < total_frames
    /\ LET linear_progress == Frac(frame_no, total_frames)
           after == ApplyEffects(instance.effects, 1, linear_progress, is_consumed)
       IN /\ is_consumed' = after.is_consumed
          /\ sample' = [effect |-> 0, input |-> linear_progress,
                        output |-> after.progress]
    /\ frame_no' = frame_no + 1
    /\ UNCHANGED << raw_scene, instance, epc, total_frames, applied >>
    /\ UNCHANGED outsideEffect

\* After the loop: no frames, no clip.
RenderReturn ==
    /\ epc = "frames" /\ frame_no = total_frames
    /\ epc' = IF total_frames = 0 THEN "no_clip" ELSE "post"
    /\ UNCHANGED << raw_scene, instance, total_frames, frame_no, is_consumed,
                    applied, sample >>
    /\ UNCHANGED outsideEffect

\* The template around the scene applies the effects that are not consumed.
PostProcess ==
    /\ epc = "post"
    /\ applied' = [k \in 1..Len(instance.effects) |-> ~is_consumed[k]]
    /\ epc' = "done"
    /\ UNCHANGED << raw_scene, instance, total_frames, frame_no, is_consumed,
                    sample >>
    /\ UNCHANGED outsideEffect

EffectNext ==
    \/ FromDict
    \/ \E k \in 1..2 : \E n \in 0..(2 * HalfSteps) :
          Transform(k, Frac(n, 2 * HalfSteps))
    \/ RenderStart
    \/ RenderFrame
    \/ RenderReturn
    \/ PostProcess

EffectSpec == EffectInit /\ [][EffectNext]_vars

\* ------------------------------------------------------------- properties
\* The scene has no length of its own: no duration, frames or audio, and
\* nothing in a `with` block.
Relative(n) ==
    /\ cfg[n].duration = None /\ cfg[n].frames = None /\ cfg[n].audio = None
    /\ cfg[n].withDuration = None /\ cfg[n].withFrames = None

\* The last call assigned scene n's resolved duration.
WasSet(n) == \E k \in 1..Len(log) : log[k].scene = n

Children(n) == { scenes[n][k] : k \in 1..Len(scenes[n]) }

AllResolved(S) == \A n \in S : IsSome(dur[n])

RECURSIVE SumResolved(_, _)
SumResolved(list, k) ==
    IF k > Len(list) THEN 0 ELSE Val(dur[list[k]]) + SumResolved(list, k + 1)

RECURSIVE TransitionsBetween(_, _)
TransitionsBetween(list, k) ==
    IF k >= Len(list) THEN 0
    ELSE (IF IsSome(cfg[list[k]].transition)
          THEN Seconds(Val(cfg[list[k]].transition)) ELSE 0)
         + TransitionsBetween(list, k + 1)

MaxResolved(S) ==
    IF S = {} THEN 0
    ELSE CHOOSE m \in { Val(dur[n]) : n \in S } : \A n \in S : Val(dur[n]) <= m

\* The last call was resolve_duration(None) on a template that cannot resolve
\* top-down, and it assigned the template's duration.
AggregatedTemplate(t) ==
    /\ t \in SceneIds
    /\ kind[t] = "template"
    /\ Relative(t)
    /\ call.context = None
    /\ WasSet(t)

\* C1: a template that cannot resolve top-down and whose internal scenes form
\* a sequence gets the sum of the internal scenes' resolved durations minus
\* the transition durations of the internal scenes that are not the last.
C1_SequenceSum ==
    LET t == call.scene
    IN (AggregatedTemplate(t) /\ IsSequence(t)) =>
         /\ AllResolved(Children(t))
         /\ dur[t] = Some(SumResolved(scenes[t], 1) - TransitionsBetween(scenes[t], 1))

\* Internal scenes of 1 and 2 seconds with a transition of 1 second on the
\* first: the template lasts 2 seconds.
C1_Witness ==
    LET t == call.scene
    IN /\ AggregatedTemplate(t) /\ IsSequence(t)
       /\ Len(scenes[t]) = 2
       /\ cfg[scenes[t][1]].duration = Some(1)
       /\ cfg[scenes[t][1]].transition = Some(1)
       /\ cfg[scenes[t][2]].duration = Some(2)
       /\ cfg[scenes[t][2]].transition = Some(1)
       /\ dur[t] = Some(Seconds(2))

\* C2: a template that cannot resolve top-down and whose internal spec is
\* exactly one composite gets the maximum of the resolved durations of that
\* composite's children.
C2_LayeredMax ==
    LET t == call.scene
    IN (AggregatedTemplate(t) /\ ~IsSequence(t)) =>
         /\ AllResolved(Children(scenes[t][1]))
         /\ dur[t] = Some(MaxResolved(Children(scenes[t][1])))

\* A composite with children of 2 and 1 seconds: the template lasts 2 seconds,
\* not 3.
C2_Witness ==
    LET t == call.scene
    IN /\ AggregatedTemplate(t) /\ ~IsSequence(t)
       /\ Len(scenes[scenes[t][1]]) = 2
       /\ cfg[scenes[scenes[t][1]][1]].duration = Some(2)
       /\ cfg[scenes[scenes[t][1]][2]].duration = Some(1)
       /\ dur[t] = Some(Seconds(2))

\* C3: once resolve_duration has returned on a scene, another call on it, with
\* any context, returns without raising and changes no resolved duration.
C3_Idempotent ==
    [][ call'.again => (~call'.raised /\ dur' = dur) ]_vars

\* A template whose resolve_duration returned earlier is resolved again, this
\* time with a context.
C3_Witness ==
    /\ call.again
    /\ kind[call.scene] = "template"
    /\ IsSome(call.context)
    /\ ~call.raised
    /\ AllResolved(Children(call.scene))

\* C4: a resolved duration is never overwritten with a different value.
C4_WriteOnce ==
    \A k \in 1..Len(log) : log[k].old = None \/ log[k].old = log[k].new

TopDown(t, ctx) ==
    IF IsSome(FixedDuration(t)) THEN FixedDuration(t) ELSE ctx

\* C6: a template that can resolve top-down gets that value, whatever its
\* internal scenes are.
C6_TopDownFirst ==
    LET t == call.scene
    IN (t \in SceneIds /\ kind[t] = "template" /\ WasSet(t) /\ ~FixedRaises(t)
        /\ IsSome(TopDown(t, call.context)))
         => dur[t] = TopDown(t, call.context)

RECURSIVE Descendants(_)
Descendants(n) ==
    Children(n) \cup UNION { Descendants(x) : x \in Children(n) }

\* C7: after resolve_duration returns on a composite or a template, every
\* descendant has a resolved duration.
C7_DescendantsResolved ==
    LET n == call.scene
    IN (n \in SceneIds /\ kind[n] # "leaf" /\ ~call.raised)
         => AllResolved({n} \cup Descendants(n))

\* The scenes a template aggregates over.
Members(t) ==
    IF IsSequence(t) THEN Children(t) ELSE Children(scenes[t][1])

\* resolve_duration(None) on scene n would raise in the current state.
CannotResolve(n) ==
    ResolveDuration(n, None,
        [dur |-> dur, raised |-> FALSE, log |-> << >>, returned |-> {}]).raised

\* C8: when a template has to aggregate and one of the scenes it aggregates
\* over cannot resolve without a context, the call fails and the template's
\* duration stays unset.
C8_AggregationFails ==
    [][ \A t \in SceneIds :
          ( /\ call'.scene = t /\ call'.context = None
            /\ kind[t] = "template" /\ Relative(t) /\ dur[t] = None
            /\ \E m \in Members(t) : CannotResolve(m) )
          => (call'.raised /\ dur'[t] = None) ]_vars

\* The first internal scene resolved, the second is relative: the call
\* failed part-way and the template is unset.
C8_Witness ==
    LET t == call.scene
    IN /\ t \in SceneIds /\ kind[t] = "template" /\ Relative(t)
       /\ call.context = None /\ call.raised
       /\ dur[t] = None
       /\ log # << >>
       /\ \E m \in Members(t) : kind[m] = "leaf" /\ Relative(m) /\ dur[m] = None

\* The children in list order, as the groups hold them.
RECURSIVE Flatten(_, _)
Flatten(gs, k) ==
    IF k > Len(gs) THEN << >>
    ELSE << gs[k].base >> \o gs[k].members \o Flatten(gs, k + 1)

\* C9: render partitions the children into groups that start at a layer child
\* and hold the non-layer children that follow it, and the 'must start with a
\* layer scene' error is raised exactly when the first child is not a layer.
C9_Groups ==
    (pc = "done") =>
      /\ (result = "group_error")
            <=> (Len(composite_mode) > 0 /\ composite_mode[1] # "layer")
      /\ (result \in {"clip", "none"}) =>
           /\ Flatten(groups, 1) = [k \in 1..Len(composite_mode) |-> k]
           /\ \A g \in 1..Len(groups) :
                /\ composite_mode[groups[g].base] = "layer"
                /\ \A m \in 1..Len(groups[g].members) :
                     composite_mode[groups[g].members[m]] # "layer"

\* C10: whatever render does, also while a member is being rendered and after
\* a member's render raised, every child's stored effect list is the one it
\* had before render was called.
C10_EffectsUntouched ==
    \A k \in 1..Len(effects) : effects[k] = effects_before[k]

\* The members of the group being built that have been processed so far,
\* were rendered to a clip and have the given mode.
Processed(mode) ==
    LET ms == groups[Len(groups)].members
    IN { ms[k] : k \in { x \in 1..Len(ms) :
                           composite_mode[ms[x]] = mode /\ renders[ms[x]] = "clip" } }

\* C11: between two members of a group, the base clip's mask is the mask the
\* base was rendered with (opaque everywhere if it had none) minus the
\* stencil of every exclude member processed so far, whatever their order.
C11_ExcludeMask ==
    (pc = "mask_loop") =>
       Opaque(Val(base_clip).mask)
         = Opaque(clips[i].mask)
             \ UNION { to_mask(clips[m]) : m \in Processed("exclude") }

C11_Witness ==
    /\ pc = "mask_loop"
    /\ clips[i].mask # None
    /\ \E m1, m2 \in Processed("exclude") :
         to_mask(clips[m1]) # to_mask(clips[m2])

\* C12: once a mask-mode member that rendered a clip has been processed, the
\* base clip's mask is that member's own alpha.
C12_MaskReplaces ==
    (pc = "mask_loop" /\ j > i + 1
       /\ composite_mode[j - 1] = "mask" /\ renders[j - 1] = "clip")
    => Opaque(Val(base_clip).mask) = Opaque(clips[j - 1].mask)

\* C13: under --force a scene with a cache policy is rendered without a
\* cache read, and the clip it renders is still stored through cache.put.
C13_ForceStillWrites ==
    \A r \in Runs : \A k \in processed[r] :
       (force[r] /\ cache_policy[k]) =>
          /\ k \notin got[r]
          /\ k \in rendered[r]
          /\ (behaviour[k] # "none") => k \in put_calls[r]

\* C14: a scene with no cache policy never reaches cache.get or cache.put,
\* with or without --force, and every run that processes it renders it.
C14_NoPolicyNoCache ==
    \A r \in Runs : \A k \in TopLevel :
       ~cache_policy[k] =>
          /\ k \notin got[r] \cup put_calls[r]
          /\ (k \in processed[r]) => (k \in rendered[r])

C14_Witness ==
    \E r \in Runs : \E k1, k2 \in processed[r] :
       /\ ~force[r]
       /\ ~cache_policy[k1]
       /\ cache_policy[k2] /\ k2 \in got[r]

ScenesOf(paths) == [n \in 1..Len(paths) |-> paths[n].scene]

RendersNothing(k) == behaviour[k] = "none"

Keep(k) == ~RendersNothing(k)

\* C16: the clip paths handed to assembly are those of the processed scenes
\* that produced a clip, cached or freshly rendered, in spec order.
C16_SpecOrder ==
    \A r \in Runs :
       IsSome(assembled[r]) =>
          ScenesOf(Val(assembled[r])) = SelectSeq(scenes_to_process(r), Keep)

C16_Witness ==
    \E r \in Runs :
       /\ IsSome(assembled[r])
       /\ Len(Val(assembled[r])) = 2
       /\ Val(assembled[r])[1].from # Val(assembled[r])[2].from

\* C17: a run that failed never reached assembly and wrote no output, and
\* once a run is over, failed or not, its temporary directory is gone.
C17_AbortCleansUp ==
    \A r \in Runs :
       /\ (gpc[r] = "failed") => (assembled[r] = None /\ ~output[r])
       /\ (gpc[r] \in {"failed", "done"}) => temp_dir[r] = NoTempDir

C17_Witness ==
    \E r \in Runs :
       /\ gpc[r] = "failed"
       /\ final_clip_paths[r] # << >>
       /\ \E k \in rendered[r] : behaviour[k] \in {"encode_raises", "put_raises"}

\* C18: a scene is only being rendered when its duration has been resolved.
C18_ResolvedBeforeRender ==
    \A r \in Runs : (gpc[r] = "render") => IsSome(dur[Scene(r)])

\* The positions of the loaded scenes that have no id, and the pairs of
\* positions that share one.
MissingIds == { n \in 1..Len(loaded) : ~HasId(loaded[n]) }

DuplicateIds ==
    { pair \in (1..Len(loaded)) \X (1..Len(loaded)) :
        /\ pair[1] < pair[2]
        /\ HasId(loaded[pair[1]]) /\ HasId(loaded[pair[2]])
        /\ loaded[pair[1]].id = loaded[pair[2]].id }

\* C19: from_dict returns a spec only if every scene has an id and the ids
\* are pairwise distinct; otherwise it raises 'missing id' at a scene with no
\* id or 'duplicate' at a scene whose id an earlier scene has, and returns
\* nothing.
C19_UniqueIds ==
    (lpc = "done") =>
      /\ (load_result.kind = "spec") => (MissingIds = {} /\ DuplicateIds = {})
      /\ (MissingIds # {} \/ DuplicateIds # {}) =>
           /\ load_result.kind = "error"
           /\ \/ /\ load_result.message = "missing id"
                 /\ load_result.at \in MissingIds
              \/ /\ load_result.message = "duplicate"
                 /\ \E pair \in DuplicateIds : pair[2] = load_result.at

C19_Witness ==
    /\ lpc = "done"
    /\ MissingIds = {} /\ DuplicateIds # {}
    /\ Len(loaded) > 2
    /\ load_result.kind = "error"

\* The value the highest-priority source gives a key: the first of the
\* sources, in order of priority, that has the key.
RECURSIVE Priority(_, _)
Priority(sources, key) ==
    IF key \in DOMAIN Head(sources) THEN Head(sources)[key]
    ELSE Priority(Tail(sources), key)

\* The sources of the n-th loaded scene, highest priority first.
SourcesOf(n) ==
    LET b == scenes_data[origin[n].block]
    IN IF origin[n].position = 0
       THEN << b.user, global_scene_defaults >>
       ELSE IF origin[n].position = 1
       THEN << Without(b.user, {"type", "name", "with"}),
               b.scenes_from_template[1], global_scene_defaults >>
       ELSE << b.scenes_from_template[origin[n].position],
               global_scene_defaults >>

RECURSIVE KeysOf(_)
KeysOf(sources) ==
    IF sources = << >> THEN {}
    ELSE DOMAIN Head(sources) \cup KeysOf(Tail(sources))

DurationAndFrames(n) ==
    \/ IsSome(cfg[n].duration) /\ IsSome(cfg[n].frames)
    \/ kind[n] = "template"
         /\ IsSome(cfg[n].withDuration) /\ IsSome(cfg[n].withFrames)

\* C22: a scene configured with both a duration and a frame count is rejected:
\* it never comes out of resolution with one of the two as its duration.
C22_MutuallyExclusive ==
    \A n \in SceneIds : DurationAndFrames(n) => dur[n] = None

\* C29: whenever resolve_duration returns on a template without raising, the
\* template and each of its internal scenes has a resolved duration, whatever
\* calls came before.
C29_InternalResolved ==
    LET t == call.scene
    IN (t \in SceneIds /\ kind[t] = "template" /\ ~call.raised)
         => AllResolved({t} \cup Children(t))

\* C30: after a template's duration was aggregated from its internal scenes
\* and they were resolved again with it, no duration the aggregate was taken
\* from has changed, and in the layered case the single composite's duration
\* is the template's.
C30_AggregateConsistent ==
    LET t == call.scene
    IN (AggregatedTemplate(t) /\ ~call.raised) =>
         /\ \A k \in 1..Len(log) :
              log[k].scene \in Members(t) => log[k].old = None
         /\ dur[t] = Some(IF IsSequence(t)
                          THEN SumResolved(scenes[t], 1) - TransitionsBetween(scenes[t], 1)
                          ELSE MaxResolved(Children(scenes[t][1])))
         /\ ~IsSequence(t) => dur[scenes[t][1]] = dur[t]

\* Run r takes a step of _process_scene.
Stepped(r) == << gpc[r], index[r] >> # << gpc'[r], index'[r] >>

\* C25: with caching in use, a lookup that finds a stored clip returns it
\* without render and without cache.put; a lookup that finds none goes on to
\* render, a rendered clip is put once, and the path returned is the one
\* cache.put gave back.
C25_CacheProtocol ==
    [][\A r \in Runs :
         (Stepped(r) /\ gpc[r] \in {"process", "render", "put"}
            /\ use_cache(r, Scene(r))) =>
           LET k == Scene(r)
               cached == [scene |-> k, from |-> "cache"]
           IN /\ (gpc[r] = "process" /\ behaviour[k] # "prepare_raises"
                    /\ k \in store) =>
                   /\ final_clip_paths'[r] = Append(final_clip_paths[r], cached)
                   /\ processed'[r] = processed[r] \cup {k}
                   /\ gpc'[r] \in {"process", "assemble"}
                   /\ rendered'[r] = rendered[r]
                   /\ put_calls'[r] = put_calls[r]
                   /\ store' = store
              /\ (gpc[r] = "process" /\ behaviour[k] # "prepare_raises"
                    /\ k \notin store) =>
                   /\ gpc'[r] = "render"
                   /\ k \notin processed'[r]
              /\ (gpc[r] = "render") =>
                   /\ k \in rendered'[r] /\ k \notin rendered[r]
                   /\ put_calls'[r] = put_calls[r]
                   /\ (behaviour[k] \in {"clip", "put_raises"}) <=> (gpc'[r] = "put")
              /\ (gpc[r] = "put") =>
                   /\ k \in rendered[r]
                   /\ k \notin put_calls[r] /\ k \in put_calls'[r]
                   /\ (behaviour[k] = "clip") =>
                        /\ k \in store'
                        /\ final_clip_paths'[r] = Append(final_clip_paths[r], cached)
                        /\ processed'[r] = processed[r] \cup {k}]_vars

\* One run rendered and stored a scene, another got it from the cache.
C25_Witness ==
    \E r1, r2 \in Runs : \E k \in processed[r1] \cap processed[r2] :
       /\ k \in rendered[r1] /\ k \in put_calls[r1]
       /\ k \in got[r2] /\ k \notin rendered[r2] /\ k \notin put_calls[r2]

\* C26: generate pairs every scene of the loaded spec with the raw block it
\* was built from, and drops none.
C26_PairedWithOwnBlock ==
    (lpc = "paired") =>
       /\ { pairs[n].scene : n \in 1..Len(pairs) } = 1..Len(loaded)
       /\ \A n \in 1..Len(pairs) : pairs[n].raw = origin[pairs[n].scene].block

\* C27: a child rendered with the merged asset list finds the path its own
\* file reference resolved to during prepare.
C27_OwnAsset ==
    \A n \in 1..Len(found) : found[n] = Some(Resolve(refs[n]))

\* The scene was built or its construction failed.
Constructed == epc \notin {"idle", "construct"}

\* C21: construction from raw configuration returns a scene or fails with a
\* ValidationError.
C21_ValidOrValidationError ==
    Constructed =>
       \/ instance.kind = "scene"
       \/ instance.kind = "error" /\ instance.error = "ValidationError"

\* C23: for an accel-decel effect, transform_progress keeps 0, 1/2 and 1
\* where they are for every non-zero abruptness and every min_speed, and
\* changes no progress value when abruptness is 0 or min_speed is 1 or more
\* as written (1 once clamped); the clamped min_speed lies in [0, 1].
C23_FixedPoints ==
    (epc = "sampled" /\ raw_scene.effects[sample.effect].type = "accel-decel") =>
       LET raw == raw_scene.effects[sample.effect]
           e == instance.effects[sample.effect]
       IN /\ ~Less(e.min_speed, Frac(0, 1)) /\ ~Less(Frac(1, 1), e.min_speed)
          /\ (raw.abruptness # 0
                /\ sample.input \in {Frac(0, 1), Frac(1, 2), Frac(1, 1)})
               => sample.output = sample.input
          /\ (raw.abruptness = 0 \/ ~Less(raw.min_speed, Frac(1, 1)))
               => sample.output = sample.input

\* The midpoint under a negative abruptness and a min_speed of one half.
C23_Witness ==
    /\ epc = "sampled"
    /\ raw_scene.effects[sample.effect].type = "accel-decel"
    /\ raw_scene.effects[sample.effect].abruptness < 0
    /\ raw_scene.effects[sample.effect].min_speed = Frac(1, 2)
    /\ sample.input = Frac(1, 2)
    /\ sample.output = Frac(1, 2)

\* C24: once the per-frame renderer has rendered a frame, every effect with a
\* progress transform is consumed and none without one is, and the
\* post-process applies exactly the effects without one.
C24_ConsumedWhenApplied ==
    (epc \in {"post", "done"}) =>
       \A k \in 1..Len(instance.effects) :
          /\ is_consumed[k] <=> has_progress_transform(instance.effects[k].type)
          /\ (epc = "done") => (applied[k] <=> ~is_consumed[k])

\* C28: a scene written with `cache: false` is built without a cache policy,
\* as one with no cache key is.
C28_CacheFalseDisables ==
    (Constructed /\ instance.kind = "scene"
        /\ raw_scene.cache \in {"absent", "false"})
      => instance.cache = None

====
